---- MODULE Spec2Model ----
(***************************************************************************)
(* Model of the hit crate: the repository lifecycle controller             *)
(* (src/src/repo.rs: Repo::status, Repo::update) and the submodule         *)
(* controller (src/src/submodule.rs: Submodule::init).                     *)
(*                                                                         *)
(* The program keeps no state of its own: everything lives on the file     *)
(* system, in the local clone and on the remote.  These are the model's    *)
(* variables; each external step of a call (one subprocess, one file       *)
(* system call) is one action, and a call's position is pc.                *)
(***************************************************************************)
EXTENDS Integers, Sequences, FiniteSets, TLC

\* Remote revisions are 1..MaxCommit; 0 stands for "no such ref".
MaxCommit == 2

NoRev == 0
Revs == 1 .. MaxCommit
\* A revision committed locally and never pushed.
LocalRev == MaxCommit + 1

Branches == {"master", "main"}

\* Untracked entries at the root of the working tree, by kind:
\*   "target"  a directory named target,
\*   "junk"    any other untracked (or ignored) file or plain directory,
\*   "nested"  an untracked directory that is itself a git repository.
\* No revision tracks a path named target: it is build output.
Entries == {"target", "junk", "nested"}

Kinds == {"absent", "file", "dir"}

VARIABLES
    remote,      \* the remote: [default: its default branch, refs: branch -> tip]
    fs,          \* [parent, path]: what Repo.path and its parent are on disk
    repo,        \* the local clone at Repo.path (meaningful when fs.path = "dir")
    pc,          \* position of the running call, "idle" or "done"
    op,          \* the operation running or last run
    result,      \* what the last call returned
    trace,       \* the external steps the call has invoked, in order
    fault,       \* the stage whose step failed in this call, or "none"
    injected,    \* TRUE when that failure came from the environment
    pre,         \* fs and repo as they were when the call began
    quiet,       \* neither a push nor a local change by the user since the call began
    local,       \* stdout of rev-parse HEAD, held by status
    sub,         \* the Submodule descriptor: [name, remote, path]
    modules,     \* the parent's .gitmodules: [exists, text]
    config,      \* the parent's .git/config: [exists, text]
    wtree,       \* the revision checked out in each submodule directory
    pin,         \* init's commit argument, <<>> for None
    checkout,    \* the checkouts init has invoked: <<[cwd, rev]>>
    made,        \* the clone at the path was made by update
    added,       \* "no" until an init call's add succeeds, then "running"
                 \* while that call runs, then how it ended: "ok" or "failed"
    follows,     \* the running call comes right after a call that returned
                 \* success: an init after an init with the same commit, a
                 \* status after an update with nothing changed since it began
    peer         \* a second caller's update on the same path:
                 \* [pc, saw: the path's kind at its check, trace, result]

repoVars == <<remote, fs, repo>>
subVars == <<sub, modules, config, wtree>>

----------------------------------------------------------------------------
\* Error kinds of repo::Error.
RepoErrors ==
    {"FetchFailed", "RevParseLocalFailed", "RevParseRemoteFailed", "LogFailed",
     "ParentDirCreationFailed", "CloneFailed", "ResetFailed", "CleanFailed"}

\* Status values.
Verdicts == {"Stale", "Fresh"}

\* The command lines the code runs.
CmdStatusFetch == "fetch origin"
CmdRevLocal == "rev-parse HEAD"
CmdRevRemote == "rev-parse @{u}"
CmdMkdir == "create_dir_all"
CmdClone == "clone --depth 1 --single-branch"
CmdUpdateFetch == "fetch --depth 1"
CmdReset == "reset --hard origin/master"
CmdClean == "clean -dfx --exclude /target"

\* MapErr with the upstream read's error copied from the local read's.
MapErrCopied(cmd) ==
    CASE cmd = CmdStatusFetch -> "FetchFailed"
      [] cmd = CmdRevLocal -> "RevParseLocalFailed"
      [] cmd = CmdRevRemote -> "RevParseLocalFailed"
      [] cmd = CmdMkdir -> "ParentDirCreationFailed"
      [] cmd = CmdClone -> "CloneFailed"
      [] cmd = CmdUpdateFetch -> "FetchFailed"
      [] cmd = CmdReset -> "ResetFailed"
      [] cmd = CmdClean -> "CleanFailed"

\* The map_err of each external step: the error kind its failure becomes.
MapErr(cmd) ==
    CASE cmd = CmdStatusFetch -> "FetchFailed"
      [] cmd = CmdRevLocal -> "RevParseLocalFailed"
      [] cmd = CmdRevRemote -> "RevParseRemoteFailed"
      [] cmd = CmdMkdir -> "ParentDirCreationFailed"
      [] cmd = CmdClone -> "CloneFailed"
      [] cmd = CmdUpdateFetch -> "FetchFailed"
      [] cmd = CmdReset -> "ResetFailed"
      [] cmd = CmdClean -> "CleanFailed"

\* The branch update resets to.
ResetBranch == "master"

\* clean without the --exclude.
CleanExcludedNone == {}

\* What clean's --exclude pattern protects.
CleanExcluded == {"target"}

\* What clean -dfx leaves in place: the excluded entries, and nested
\* repositories, which a clean with a single -f skips.
CleanKeeps == CleanExcluded \cup {"nested"}

NoRepo ==
    [head |-> NoRev, origin |-> [b \in Branches |-> NoRev], upstream |-> "none",
     refspec |-> {}, tree |-> NoRev, dirty |-> FALSE, untracked |-> {}]

\* The clone a shallow single-branch clone of the remote produces.
Cloned(rem) ==
    [head |-> rem.refs[rem.default],
     origin |-> [b \in Branches |-> IF b = rem.default THEN rem.refs[b] ELSE NoRev],
     upstream |-> rem.default,
     refspec |-> {rem.default},
     tree |-> rem.refs[rem.default],
     dirty |-> FALSE,
     untracked |-> {}]

\* A clone of every branch, as made without --single-branch.
ClonedAll(rem) ==
    [Cloned(rem) EXCEPT !.origin = rem.refs, !.refspec = Branches]

\* pull in the place of fetch: the remote-tracking refs move and the
\* checkout follows its upstream.
Pulled(r, rem) ==
    LET o == [b \in Branches |->
                 IF b \in r.refspec /\ rem.refs[b] # NoRev THEN rem.refs[b] ELSE r.origin[b]]
        u == IF r.upstream \in Branches THEN o[r.upstream] ELSE NoRev
    IN [r EXCEPT !.origin = o,
                 !.head = IF u # NoRev THEN u ELSE @,
                 !.tree = IF u # NoRev THEN u ELSE @]

\* fetch: every branch of the clone's refspec that the remote has moves the
\* remote-tracking ref to the remote's tip.
Fetched(r, rem) ==
    [r EXCEPT !.origin =
        [b \in Branches |->
            IF b \in r.refspec /\ rem.refs[b] # NoRev THEN rem.refs[b] ELSE r.origin[b]]]

\* reset --hard origin/<ResetBranch>: the current branch, the index and the
\* tracked files become that revision; untracked entries stay.
CanReset(r) == r.origin[ResetBranch] # NoRev

\* A reset that moves the branch and leaves index and files alone.
SoftReset(r) == [r EXCEPT !.head = r.origin[ResetBranch]]

HardReset(r) ==
    [r EXCEPT !.head = r.origin[ResetBranch],
              !.tree = r.origin[ResetBranch],
              !.dirty = FALSE]

\* clean: untracked entries go, except what clean keeps.
Cleaned(r) == [r EXCEPT !.untracked = r.untracked \cap CleanKeeps]

\* What a clean that fails may have left behind.
PartlyCleaned(r) ==
    {[r EXCEPT !.untracked = u] :
        u \in {x \in SUBSET r.untracked : r.untracked \cap CleanKeeps \subseteq x}}

\* The verdict with the comparison inverted.
VerdictInverted(l, u) == IF l = u THEN "Stale" ELSE "Fresh"

\* Repo::status, line 74: the verdict from the two outputs.
Verdict(l, u) == IF l # u THEN "Stale" ELSE "Fresh"

\* Path::exists in the place of is_dir.
Exists(k) == k # "absent"

\* Path::is_dir.
IsDir(k) == k = "dir"

----------------------------------------------------------------------------
\* No second caller.
NoPeer == [pc |-> "idle", saw |-> "none", trace |-> <<>>, result |-> "none"]

\* What a call may change, as it is now.
Snapshot(f, r, m, c, w) == [fs |-> f, repo |-> r, modules |-> m, config |-> c, wtree |-> w]

\* A call begins: the per-call history starts.
Begin(o) ==
    /\ pc = "idle"
    /\ op' = o
    /\ trace' = <<>>
    /\ pre' = Snapshot(fs, repo, modules, config, wtree)
    /\ quiet' = TRUE
    /\ local' = NoRev
    /\ checkout' = <<>>

\* A step is invoked.
Invoke(cmd) ==
    /\ trace' = Append(trace, cmd)
    /\ UNCHANGED <<op, pre, quiet, pin>>

\* The error dropped: the call returns success though the step failed.
FailSwallowed(stage, kind, env) ==
    /\ pc' = "done"
    /\ result' = "Ok"
    /\ fault' = stage
    /\ injected' = env

\* The call returns an error from the step of the given stage; env tells
\* whether the environment made the step fail (network, disk, permissions)
\* or the step could not succeed in this state.
Fail(stage, kind, env) ==
    /\ pc' = "done"
    /\ result' = kind
    /\ fault' = stage
    /\ injected' = env

\* The call's first step is chosen.
Start(next) ==
    /\ pc' = next
    /\ result' = "none"
    /\ UNCHANGED <<fault, injected>>

\* The call goes on to the next step.
Goto(next) ==
    /\ pc' = next
    /\ UNCHANGED <<result, fault, injected>>

\* The call returns a value.
Return(v) ==
    /\ pc' = "done"
    /\ result' = v
    /\ UNCHANGED <<fault, injected>>

\* The caller takes the result; the call's history ends with the call.
Finish ==
    /\ pc = "done"
    /\ pc' = "idle"
    /\ trace' = <<>>
    /\ fault' = "none"
    /\ injected' = FALSE
    /\ pre' = Snapshot(fs, repo, modules, config, wtree)
    /\ local' = NoRev
    /\ checkout' = <<>>
    /\ UNCHANGED <<remote, fs, repo, op, result, quiet, pin>>
    /\ UNCHANGED subVars
    /\ added' = IF added # "running" THEN added ELSE IF result = "Ok" THEN "ok" ELSE "failed"
    /\ follows' = FALSE
    /\ UNCHANGED <<made, peer>>

----------------------------------------------------------------------------
\* Repo::status

\* line 59: not a directory gives Stale at once, else the fetch comes next.
StatusBegin ==
    /\ Begin("status")
    /\ IF ~IsDir(fs.path) THEN Return("Stale") ELSE Start("s_fetch")
    /\ follows' = (op = "update" /\ result = "Ok" /\ quiet)
    /\ UNCHANGED <<remote, fs, repo, pin>>
    /\ UNCHANGED subVars
    /\ UNCHANGED <<made, added, peer>>

\* lines 63-65
StatusFetch ==
    /\ pc = "s_fetch"
    /\ Invoke(CmdStatusFetch)
    /\ \/ /\ repo' = Fetched(repo, remote)
          /\ Goto("s_local")
       \/ /\ Fail("fetch", MapErr(CmdStatusFetch), TRUE)
          /\ UNCHANGED repo
    /\ UNCHANGED <<remote, fs, local, checkout>>
    /\ UNCHANGED subVars
    /\ UNCHANGED <<made, added, follows, peer>>

\* lines 66-69
StatusRevLocal ==
    /\ pc = "s_local"
    /\ Invoke(CmdRevLocal)
    /\ \/ /\ repo.head # NoRev
          /\ local' = repo.head
          /\ Goto("s_remote")
       \/ /\ Fail("local-rev", MapErr(CmdRevLocal), repo.head # NoRev)
          /\ UNCHANGED local
    /\ UNCHANGED <<remote, fs, repo, checkout>>
    /\ UNCHANGED subVars
    /\ UNCHANGED <<made, added, follows, peer>>

\* The revision @{u} names, NoRev when the checkout has no upstream.
UpstreamRev(r) == IF r.upstream = "none" THEN NoRev ELSE r.origin[r.upstream]

\* lines 70-80
StatusRevRemote ==
    /\ pc = "s_remote"
    /\ Invoke(CmdRevRemote)
    /\ \/ /\ UpstreamRev(repo) # NoRev
          /\ Return(Verdict(local, UpstreamRev(repo)))
       \/ Fail("upstream-rev", MapErr(CmdRevRemote), UpstreamRev(repo) # NoRev)
    /\ UNCHANGED <<remote, fs, repo, local, checkout>>
    /\ UNCHANGED subVars
    /\ UNCHANGED <<made, added, follows, peer>>

----------------------------------------------------------------------------
\* Repo::update

\* update without the check of the parent directory.
UpdateFirstNoMkdir(pathKind, parentKind) ==
    IF ~IsDir(pathKind) THEN "u_clone" ELSE "u_fetch"

\* update that returns at once when another update call is running.
UpdateFirstLocked(pathKind, parentKind) ==
    IF pc # "idle" \/ peer.pc # "idle"
      THEN "u_done"
      ELSE IF ~IsDir(pathKind)
             THEN IF ~IsDir(parentKind) THEN "u_mkdir" ELSE "u_clone"
             ELSE "u_fetch"

\* Where update goes first: lines 100, 105, 119.
UpdateFirst(pathKind, parentKind) ==
    IF ~IsDir(pathKind)
      THEN IF ~IsDir(parentKind) THEN "u_mkdir" ELSE "u_clone"
      ELSE "u_fetch"

UpdateBegin ==
    /\ Begin("update")
    /\ Start(UpdateFirst(fs.path, fs.parent))
    /\ follows' = FALSE
    /\ UNCHANGED <<remote, fs, repo, pin>>
    /\ UNCHANGED subVars
    /\ UNCHANGED <<made, added, peer>>

\* lines 106-111: create_dir_all cannot succeed over a file.
UpdateMkdir ==
    /\ pc = "u_mkdir"
    /\ Invoke(CmdMkdir)
    /\ \/ /\ fs.parent # "file"
          /\ fs' = [fs EXCEPT !.parent = "dir"]
          /\ Goto("u_clone")
       \/ /\ Fail("mkdir", MapErr(CmdMkdir), fs.parent # "file")
          /\ UNCHANGED fs
    /\ UNCHANGED <<remote, repo, local, checkout>>
    /\ UNCHANGED subVars
    /\ UNCHANGED <<made, added, follows, peer>>

\* lines 113-118: clone needs the parent to be there and the path free.
CanClone(f) == f.parent = "dir" /\ f.path = "absent"

\* Another call's clone into the path is under way or just done: git clone
\* accepts an empty directory, so a clone that meets the other one's
\* directory may fail or go on into it.
CloneRaced(f, otherPc, otherTrace) ==
    /\ f.parent = "dir"
    /\ f.path = "dir"
    /\ otherPc # "idle"
    /\ \E i \in 1 .. Len(otherTrace) : otherTrace[i] = CmdClone

UpdateClone ==
    /\ pc = "u_clone"
    /\ Invoke(CmdClone)
    /\ \/ /\ CanClone(fs) \/ CloneRaced(fs, peer.pc, peer.trace)
          /\ fs' = [fs EXCEPT !.path = "dir"]
          /\ repo' = Cloned(remote)
          /\ Goto("u_done")
       \/ /\ Fail("clone", MapErr(CmdClone), CanClone(fs))
          /\ UNCHANGED <<fs, repo>>
    /\ UNCHANGED <<remote, local, checkout>>
    /\ UNCHANGED subVars
    /\ made' = (made \/ (fs'.path = "dir" /\ fs.path # "dir"))
    /\ UNCHANGED <<added, follows, peer>>

\* lines 129-132
UpdateFetch ==
    /\ pc = "u_fetch"
    /\ Invoke(CmdUpdateFetch)
    /\ \/ /\ repo' = Fetched(repo, remote)
          /\ Goto("u_reset")
       \/ /\ Fail("fetch", MapErr(CmdUpdateFetch), TRUE)
          /\ UNCHANGED repo
    /\ UNCHANGED <<remote, fs, local, checkout>>
    /\ UNCHANGED subVars
    /\ UNCHANGED <<made, added, follows, peer>>

\* lines 133-136
UpdateReset ==
    /\ pc = "u_reset"
    /\ Invoke(CmdReset)
    /\ \/ /\ CanReset(repo)
          /\ repo' = HardReset(repo)
          /\ Goto("u_clean")
       \/ /\ Fail("reset", MapErr(CmdReset), CanReset(repo))
          /\ UNCHANGED repo
    /\ UNCHANGED <<remote, fs, local, checkout>>
    /\ UNCHANGED subVars
    /\ UNCHANGED <<made, added, follows, peer>>

\* lines 137-140
UpdateClean ==
    /\ pc = "u_clean"
    /\ Invoke(CmdClean)
    /\ \/ /\ repo' = Cleaned(repo)
          /\ Goto("u_done")
       \/ /\ repo' \in PartlyCleaned(repo)
          /\ Fail("clean", MapErr(CmdClean), TRUE)
    /\ UNCHANGED <<remote, fs, local, checkout>>
    /\ UNCHANGED subVars
    /\ UNCHANGED <<made, added, follows, peer>>

\* line 142
UpdateReturn ==
    /\ pc = "u_done"
    /\ Return("Ok")
    /\ UNCHANGED <<remote, fs, repo, op, trace, pre, quiet, local, pin, checkout>>
    /\ UNCHANGED subVars
    /\ UNCHANGED <<made, added, follows, peer>>

----------------------------------------------------------------------------
\* Text.  A string is a sequence of characters; the literal pieces of a
\* format string are single elements.  An Option is a sequence of length 0
\* (None) or 1 (Some).

None == <<>>
Some(x) == <<x>>

\* \w, over the characters the model's strings use.
WordChars == {"a", "b", "f", "g", "h", "i", "n", "o", "q", "s", "t"}

IsWord(c) == c \in WordChars

\* str::contains
Contains(text, pat) ==
    \E i \in 0 .. (Len(text) - Len(pat)) : SubSeq(text, i + 1, i + Len(pat)) = pat

\* The end of the run of word characters that begins at i: the first index
\* from i on that holds no word character.
RECURSIVE WordRunEnd(_, _)
WordRunEnd(s, i) ==
    IF i <= Len(s) /\ IsWord(s[i]) THEN WordRunEnd(s, i + 1) ELSE i

\* \.git at index j.
DotGitAt(s, j) ==
    /\ j + 3 <= Len(s)
    /\ SubSeq(s, j, j + 3) = <<".", "g", "i", "t">>

\* (?P<name>\w+)\.git matches at i: \w+ is greedy, and no shorter run can be
\* followed by a dot.
MatchesAt(s, i) ==
    LET j == WordRunEnd(s, i) IN j > i /\ DotGitAt(s, j)

\* Regex::captures, lines 103-107: the leftmost match's name group.
Captures(s) ==
    LET starts == {i \in 1 .. Len(s) : MatchesAt(s, i)} IN
    IF starts = {} THEN None
    ELSE LET i == CHOOSE k \in starts : \A m \in starts : k <= m
         IN Some(SubSeq(s, i, WordRunEnd(s, i) - 1))

\* name() falling back on the whole remote.
NameOrRemote(d) ==
    IF d.name # None THEN d.name
    ELSE IF Captures(d.remote) # None THEN Captures(d.remote) ELSE Some(d.remote)

\* Submodule::name, lines 101-111.
Name(d) == IF d.name # None THEN d.name ELSE Captures(d.remote)

\* {:?} of a string: quotes around it, quote and backslash escaped.
RECURSIVE EscapeDebug(_)
EscapeDebug(s) ==
    IF s = <<>> THEN <<>>
    ELSE (IF Head(s) \in {"\"", "\\"} THEN <<"\\", Head(s)>> ELSE <<Head(s)>>)
         \o EscapeDebug(Tail(s))

\* The header formatted with {} in the place of {:?}.
SectionHeaderPlain(name) == <<"[submodule ">> \o name \o <<"]">>

\* format!("[submodule {:?}]", name), lines 120 and 128.
SectionHeader(name) == <<"[submodule ">> \o <<"\"">> \o EscapeDebug(name) \o <<"\"">> \o <<"]">>

\* A byte sequence that is no UTF-8.
BadByte == "\\xff"

\* to_string_lossy in the place of to_str: never None.
ToStrLossy(p) == Some(p)

\* Path::to_str, line 143.
ToStr(p) == IF \E i \in 1 .. Len(p) : p[i] = BadByte THEN None ELSE Some(p)

\* Path::join, line 176: an absolute path replaces the base.
IsAbsolute(p) == p # <<>> /\ p[1] = "/"

Join(base, p) == IF IsAbsolute(p) THEN p ELSE base \o p

----------------------------------------------------------------------------
\* The parent repository, as git keeps it.

\* git.root(): the parent repository init is given.
Root == <<"/", "r">>

\* Another submodule of the parent.
OtherName == <<"o">>
OtherDir == Root \o <<"o">>

\* The revision the parent records for a submodule: what add and update
\* check out.
RecordedRev == CHOOSE c \in Revs : \A d \in Revs : c <= d

\* git writes a section header with the name quoted, quote and backslash
\* escaped.
RECURSIVE GitEscape(_)
GitEscape(s) ==
    IF s = <<>> THEN <<>>
    ELSE (IF Head(s) \in {"\"", "\\"} THEN <<"\\", Head(s)>> ELSE <<Head(s)>>)
         \o GitEscape(Tail(s))

GitSection(name) ==
    <<"[submodule ">> \o <<"\"">> \o GitEscape(name) \o <<"\"", "]", "\n">>

NoFile == [exists |-> FALSE, text |-> <<>>]

HasSection(file, name) == file.exists /\ Contains(file.text, GitSection(name))

WithSection(file, name) ==
    IF HasSection(file, name) THEN file
    ELSE [exists |-> TRUE, text |-> file.text \o GitSection(name)]

\* The names the parent's manifest registers, and where each one's working
\* tree is.
ThisNames == IF Name(sub) = None THEN {} ELSE {Name(sub)[1]}

Registered(m) == {n \in ThisNames \cup {OtherName} : HasSection(m, n)}

DirOf(n) == IF n = OtherName THEN OtherDir ELSE Join(Root, sub.path)

\* submodule add: the manifest gets the section, the local config gets it
\* too, and the submodule is cloned at its path.
CanAdd(m, name) == ~HasSection(m, name)

\* submodule update --init --recursive, run without a path: every
\* registered submodule is initialized and put at its recorded revision.
RECURSIVE InitializedAll(_, _)
InitializedAll(c, names) ==
    IF names = {} THEN c
    ELSE LET n == CHOOSE x \in names : TRUE
         IN InitializedAll(WithSection(c, n), names \ {n})

UpdatedTrees(w, names) ==
    [d \in DOMAIN w |-> IF \E n \in names : DirOf(n) = d THEN RecordedRev ELSE w[d]]

\* checkout needs a populated working tree and a revision the submodule has.
CanCheckout(w, d, c) == d \in DOMAIN w /\ w[d] # NoRev /\ c \in Revs

----------------------------------------------------------------------------
\* Submodule::init

SubErrors ==
    {"NameMissing", "IndexCheckFailed", "InitCheckFailed", "PathInvalidUtf8",
     "AddFailed", "InitFailed", "CheckoutFailed"}

CmdReadModules == "read .gitmodules"
CmdReadConfig == "read .git/config"
CmdAdd == "submodule add --name"
CmdSubUpdate == "submodule update --init --recursive"
CmdCheckout == "checkout"

\* The map_err of each step of init.
SubMapErr(cmd) ==
    CASE cmd = CmdReadModules -> "IndexCheckFailed"
      [] cmd = CmdReadConfig -> "InitCheckFailed"
      [] cmd = CmdAdd -> "AddFailed"
      [] cmd = CmdSubUpdate -> "InitFailed"
      [] cmd = CmdCheckout -> "CheckoutFailed"

\* Git::modules and Git::config: the file's text, None when there is no file.
ReadFile(file) == IF file.exists THEN Some(file.text) ELSE None

\* in_index that takes a missing manifest for one that has the section.
InIndexAssumed(file, name) ==
    LET read == ReadFile(file) IN
    read = None \/ Contains(read[1], SectionHeader(name))

\* Submodule::in_index, lines 117-123.
InIndex(file, name) ==
    LET read == ReadFile(file) IN
    read # None /\ Contains(read[1], SectionHeader(name))

\* initialized() that never finds the section.
InitializedNever(file, name) == FALSE

\* Submodule::initialized, lines 125-131.
Initialized(file, name) ==
    LET read == ReadFile(file) IN
    read # None /\ Contains(read[1], SectionHeader(name))

\* init that forgets the commit.
AfterInitNoPin(p) == "i_done"

\* lines 175-193: a checkout follows when a commit is given.
AfterInit(p) == IF p # None THEN "i_checkout" ELSE "i_done"

\* The commits init may be given: none, one the submodule has, one it lacks.
Pins == {None} \cup {Some(c) : c \in Revs \cup {LocalRev}}

\* lines 134-137
InitBegin ==
    /\ Begin("init")
    /\ \E c \in Pins : pin' = c
    /\ IF Name(sub) = None
         THEN Fail("name", "NameMissing", FALSE)
         ELSE Start("i_index")
    /\ follows' = (op = "init" /\ result = "Ok" /\ pin' = pin)
    /\ UNCHANGED repoVars
    /\ UNCHANGED subVars
    /\ UNCHANGED <<made, added, peer>>

\* lines 138-146: the manifest query, and in the unregistered branch the
\* path's conversion.
InitIndex ==
    /\ pc = "i_index"
    /\ Invoke(CmdReadModules)
    /\ \/ Fail("manifest-query", SubMapErr(CmdReadModules), TRUE)
       \/ IF InIndex(modules, Name(sub)[1])
            THEN Goto("i_config")
            ELSE IF ToStr(sub.path) = None
                   THEN Fail("path-encoding", "PathInvalidUtf8", FALSE)
                   ELSE Goto("i_add")
    /\ UNCHANGED <<local, checkout>>
    /\ UNCHANGED repoVars
    /\ UNCHANGED subVars
    /\ UNCHANGED <<made, added, follows, peer>>

\* After add the local config is queried like for a registered submodule.
AfterAddRequery == "i_config"

\* line 155: after add the submodule counts as not initialized, with no
\* query of the local config.
AfterAdd == "i_update"

\* lines 147-155
InitAdd ==
    /\ pc = "i_add"
    /\ Invoke(CmdAdd)
    /\ \/ /\ CanAdd(modules, Name(sub)[1])
          /\ modules' = WithSection(modules, Name(sub)[1])
          /\ config' = WithSection(config, Name(sub)[1])
          /\ wtree' = [wtree EXCEPT ![Join(Root, sub.path)] = RecordedRev]
          /\ Goto(AfterAdd)
       \/ /\ Fail("add", SubMapErr(CmdAdd), CanAdd(modules, Name(sub)[1]))
          /\ UNCHANGED <<modules, config, wtree>>
    /\ UNCHANGED <<sub, local, checkout>>
    /\ UNCHANGED repoVars
    /\ added' = IF added = "no" /\ pc' = AfterAdd THEN "running" ELSE added
    /\ UNCHANGED <<made, follows, peer>>

\* lines 157-162
InitConfig ==
    /\ pc = "i_config"
    /\ Invoke(CmdReadConfig)
    /\ \/ Fail("config-query", SubMapErr(CmdReadConfig), TRUE)
       \/ IF Initialized(config, Name(sub)[1])
            THEN Goto(AfterInit(pin))
            ELSE Goto("i_update")
    /\ UNCHANGED <<local, checkout>>
    /\ UNCHANGED repoVars
    /\ UNCHANGED subVars
    /\ UNCHANGED <<made, added, follows, peer>>

\* lines 163-171
InitUpdate ==
    /\ pc = "i_update"
    /\ Invoke(CmdSubUpdate)
    /\ \/ /\ config' = InitializedAll(config, Registered(modules))
          /\ wtree' = UpdatedTrees(wtree, Registered(modules))
          /\ Goto(AfterInit(pin))
       \/ /\ Fail("recursive-init", SubMapErr(CmdSubUpdate), TRUE)
          /\ UNCHANGED <<config, wtree>>
    /\ UNCHANGED <<sub, modules, local, checkout>>
    /\ UNCHANGED repoVars
    /\ UNCHANGED <<made, added, follows, peer>>

\* lines 175-193
InitCheckout ==
    /\ pc = "i_checkout"
    /\ Invoke(CmdCheckout)
    /\ checkout' = Append(checkout, [cwd |-> Join(Root, sub.path), rev |-> pin[1]])
    /\ \/ /\ CanCheckout(wtree, Join(Root, sub.path), pin[1])
          /\ wtree' = [wtree EXCEPT ![Join(Root, sub.path)] = pin[1]]
          /\ Goto("i_done")
       \/ /\ Fail("checkout", SubMapErr(CmdCheckout), CanCheckout(wtree, Join(Root, sub.path), pin[1]))
          /\ UNCHANGED wtree
    /\ UNCHANGED <<sub, modules, config, local>>
    /\ UNCHANGED repoVars
    /\ UNCHANGED <<made, added, follows, peer>>

\* line 194
InitReturn ==
    /\ pc = "i_done"
    /\ Return("Ok")
    /\ UNCHANGED <<op, trace, pre, quiet, local, pin, checkout>>
    /\ UNCHANGED repoVars
    /\ UNCHANGED subVars
    /\ UNCHANGED <<made, added, follows, peer>>

----------------------------------------------------------------------------
\* Repo::update called by a second caller on the same path while the first
\* caller's call may be running: the same steps, on the same disk.

\* A step of the second caller leaves the first caller's call where it is.
PeerFrame ==
    /\ UNCHANGED <<pc, op, result, trace, fault, injected, pre, quiet, local, pin, checkout>>
    /\ UNCHANGED subVars
    /\ UNCHANGED <<made, added, follows>>

\* lines 100, 105, 119
PeerBegin ==
    /\ peer.pc = "idle"
    /\ peer' = [pc |-> UpdateFirst(fs.path, fs.parent), saw |-> fs.path,
                trace |-> <<>>, result |-> "none"]
    /\ UNCHANGED <<remote, fs, repo>>
    /\ PeerFrame

\* lines 106-111
PeerMkdir ==
    /\ peer.pc = "u_mkdir"
    /\ \/ /\ fs.parent # "file"
          /\ fs' = [fs EXCEPT !.parent = "dir"]
          /\ peer' = [peer EXCEPT !.pc = "u_clone", !.trace = Append(@, CmdMkdir)]
       \/ /\ peer' = [peer EXCEPT !.pc = "done", !.trace = Append(@, CmdMkdir),
                                  !.result = MapErr(CmdMkdir)]
          /\ UNCHANGED fs
    /\ UNCHANGED <<remote, repo>>
    /\ PeerFrame

\* lines 113-118
PeerClone ==
    /\ peer.pc = "u_clone"
    /\ \/ /\ CanClone(fs) \/ CloneRaced(fs, pc, trace)
          /\ fs' = [fs EXCEPT !.path = "dir"]
          /\ repo' = Cloned(remote)
          /\ peer' = [peer EXCEPT !.pc = "u_done", !.trace = Append(@, CmdClone)]
       \/ /\ peer' = [peer EXCEPT !.pc = "done", !.trace = Append(@, CmdClone),
                                  !.result = MapErr(CmdClone)]
          /\ UNCHANGED <<fs, repo>>
    /\ UNCHANGED remote
    /\ PeerFrame

\* lines 129-132
PeerFetch ==
    /\ peer.pc = "u_fetch"
    /\ \/ /\ repo' = Fetched(repo, remote)
          /\ peer' = [peer EXCEPT !.pc = "u_reset", !.trace = Append(@, CmdUpdateFetch)]
       \/ /\ peer' = [peer EXCEPT !.pc = "done", !.trace = Append(@, CmdUpdateFetch),
                                  !.result = MapErr(CmdUpdateFetch)]
          /\ UNCHANGED repo
    /\ UNCHANGED <<remote, fs>>
    /\ PeerFrame

\* lines 133-136
PeerReset ==
    /\ peer.pc = "u_reset"
    /\ \/ /\ CanReset(repo)
          /\ repo' = HardReset(repo)
          /\ peer' = [peer EXCEPT !.pc = "u_clean", !.trace = Append(@, CmdReset)]
       \/ /\ peer' = [peer EXCEPT !.pc = "done", !.trace = Append(@, CmdReset),
                                  !.result = MapErr(CmdReset)]
          /\ UNCHANGED repo
    /\ UNCHANGED <<remote, fs>>
    /\ PeerFrame

\* lines 137-140
PeerClean ==
    /\ peer.pc = "u_clean"
    /\ \/ /\ repo' = Cleaned(repo)
          /\ peer' = [peer EXCEPT !.pc = "u_done", !.trace = Append(@, CmdClean)]
       \/ /\ repo' \in PartlyCleaned(repo)
          /\ peer' = [peer EXCEPT !.pc = "done", !.trace = Append(@, CmdClean),
                                  !.result = MapErr(CmdClean)]
    /\ UNCHANGED <<remote, fs>>
    /\ PeerFrame

\* line 142
PeerReturn ==
    /\ peer.pc = "u_done"
    /\ peer' = [peer EXCEPT !.pc = "done", !.result = "Ok"]
    /\ UNCHANGED <<remote, fs, repo>>
    /\ PeerFrame

\* The second caller takes the result.
PeerFinish ==
    /\ peer.pc = "done"
    /\ peer' = NoPeer
    /\ UNCHANGED <<remote, fs, repo>>
    /\ PeerFrame

----------------------------------------------------------------------------
\* The environment.

\* Someone pushes to a branch of the remote, or creates it.
RemotePush ==
    /\ \E b \in Branches : \E c \in Revs :
          /\ c > remote.refs[b]
          /\ remote' = [remote EXCEPT !.refs[b] = c]
    /\ quiet' = FALSE
    /\ UNCHANGED <<fs, repo, pc, op, result, trace, fault, injected, pre, local, pin, checkout>>
    /\ UNCHANGED subVars
    /\ UNCHANGED <<made, added, follows, peer>>

\* Between calls the user changes the clone: edits or stages tracked files,
\* creates untracked entries, commits, or switches to a branch with another
\* upstream (or none).
LocalDrift ==
    /\ pc = "idle"
    /\ IsDir(fs.path)
    /\ \/ repo' = [repo EXCEPT !.dirty = TRUE]
       \/ \E e \in Entries : repo' = [repo EXCEPT !.untracked = @ \cup {e}]
       \/ repo' = [repo EXCEPT !.head = LocalRev, !.tree = LocalRev, !.dirty = FALSE]
       \/ \E u \in {b \in Branches : repo.origin[b] # NoRev} \cup {"none"} :
             repo' = [repo EXCEPT !.upstream = u]
    /\ pre' = Snapshot(fs, repo', modules, config, wtree)
    /\ quiet' = FALSE
    /\ UNCHANGED <<remote, fs, pc, op, result, trace, fault, injected, local, pin, checkout>>
    /\ UNCHANGED subVars
    /\ UNCHANGED <<made, added, follows, peer>>

----------------------------------------------------------------------------
\* Initial states: the disk and the remote as a call may find them.

Remotes ==
    {rem \in [default : Branches, refs : [Branches -> {NoRev} \cup Revs]] :
        rem.refs[rem.default] # NoRev}

IdleCall ==
    /\ pc = "idle"
    /\ op = "none"
    /\ result = "none"
    /\ trace = <<>>
    /\ fault = "none"
    /\ injected = FALSE
    /\ pre = Snapshot(fs, repo, modules, config, wtree)
    /\ quiet = TRUE
    /\ local = NoRev
    /\ pin = None
    /\ checkout = <<>>
    /\ made = FALSE
    /\ added = "no"
    /\ follows = FALSE
    /\ peer = NoPeer

\* The path absent, a file, or a clone of the remote.
RepoStates ==
    /\ remote \in Remotes
    /\ fs \in {f \in [parent : Kinds, path : Kinds] :
                  f.path # "absent" => f.parent = "dir"}
    /\ repo \in IF IsDir(fs.path) THEN {Cloned(remote), ClonedAll(remote)} ELSE {NoRepo}

\* The names are ones that git and {:?} quote alike: word characters, and a
\* quote, which both escape.
\* The descriptors: no name or an explicit one; a remote that ends in
\* <word>.git, one without .git, one with .git inside, one whose host
\* has .git inside and that ends in <word>.git; a relative path, an
\* absolute one, one that is no UTF-8.
SubNames == {None, Some(<<"n">>), Some(<<"q", "\"">>)}

SubRemotes ==
    {<<"h", "/", "f", "/", "b", ".", "g", "i", "t">>,
     <<"h", "/", "f", "/", "b">>,
     <<"a", ".", "g", "i", "t", ".", "h", "/", "b">>,
     <<"s", ".", "g", "i", "t", "h", "/", "b", ".", "g", "i", "t">>}

SubPaths == {<<"s">>, Root \o <<"s">>, <<BadByte>>}

Dirs == {Join(Root, p) : p \in SubPaths} \cup {OtherDir}

\* The manifest and the local config: no file, an empty one, or one with
\* sections for this submodule, the other one, or both.
Files(d) ==
    LET this == IF Name(d) = None THEN {} ELSE {GitSection(Name(d)[1])}
        texts == {<<>>, GitSection(OtherName)} \cup this
                     \cup {GitSection(OtherName) \o t : t \in this}
    IN {NoFile} \cup {[exists |-> TRUE, text |-> t] : t \in texts}

SubStates ==
    /\ sub \in [name : SubNames, remote : SubRemotes, path : SubPaths]
    /\ modules \in Files(sub)
    /\ config \in Files(sub)
    /\ wtree \in {w \in [Dirs -> {NoRev, RecordedRev}] :
                    \A d \in Dirs : d \notin {OtherDir, Join(Root, sub.path)} => w[d] = NoRev}

\* No repository at the path.
NoRepoState ==
    /\ remote = [default |-> "master", refs |-> [b \in Branches |-> IF b = "master" THEN RecordedRev ELSE NoRev]]
    /\ fs = [parent |-> "dir", path |-> "absent"]
    /\ repo = NoRepo

\* No submodule in use.
NoSubState ==
    /\ sub = [name |-> None, remote |-> <<>>, path |-> <<>>]
    /\ modules = NoFile
    /\ config = NoFile
    /\ wtree = [d \in Dirs |-> NoRev]

InitRepo == RepoStates /\ NoSubState /\ IdleCall

InitSub == NoRepoState /\ SubStates /\ IdleCall

vars ==
    <<remote, fs, repo, pc, op, result, trace, fault, injected, pre, quiet, local,
      sub, modules, config, wtree, pin, checkout, made, added, follows,
      peer>>

NextRepo ==
    \/ StatusBegin \/ StatusFetch \/ StatusRevLocal \/ StatusRevRemote
    \/ UpdateBegin \/ UpdateMkdir \/ UpdateClone \/ UpdateFetch \/ UpdateReset
    \/ UpdateClean \/ UpdateReturn
    \/ Finish \/ RemotePush \/ LocalDrift

NextSub ==
    \/ InitBegin \/ InitIndex \/ InitAdd \/ InitConfig \/ InitUpdate
    \/ InitCheckout \/ InitReturn
    \/ Finish

\* The repository lifecycle controller.
Spec == InitRepo /\ [][NextRepo]_vars

\* The submodule controller.
SpecSub == InitSub /\ [][NextSub]_vars

\* Either controller: a behaviour of the one or of the other, told apart
\* by the descriptor, which no step changes.
InitAll == InitRepo \/ InitSub

NextAll ==
    \/ sub.remote = <<>> /\ NextRepo
    \/ sub.remote # <<>> /\ NextSub

SpecAll == InitAll /\ [][NextAll]_vars

\* Two callers' update calls on one path, with no order between their
\* steps.
NextConc ==
    \/ UpdateBegin \/ UpdateMkdir \/ UpdateClone \/ UpdateFetch \/ UpdateReset
    \/ UpdateClean \/ UpdateReturn
    \/ Finish
    \/ PeerBegin \/ PeerMkdir \/ PeerClone \/ PeerFetch \/ PeerReset
    \/ PeerClean \/ PeerReturn \/ PeerFinish

SpecConc == InitRepo /\ [][NextConc]_vars

----------------------------------------------------------------------------
\* The claims.

IsPrefix(s, t) == Len(s) <= Len(t) /\ s = SubSeq(t, 1, Len(s))

Invoked(cmd) == \E i \in 1 .. Len(trace) : trace[i] = cmd

\* C1: update is idempotent under drift.  With no failure caused by the
\* environment and no push in between, update on an absent path, and a
\* later update on the clone update made, whatever the user did to it,
\* returns Ok and leaves the tracked files at the tip of the remote's
\* default branch.
C1_UpdateConverges ==
    (/\ op = "update"
     /\ pc = "done"
     /\ quiet
     /\ ~injected
     /\ \/ pre.fs.path = "absent" /\ pre.fs.parent # "file"
        \/ pre.fs.path = "dir" /\ made)
    => /\ result = "Ok"
       /\ fs.path = "dir"
       /\ repo.tree = remote.refs[remote.default]
       /\ ~repo.dirty

\* C2: once an init call's add has succeeded, no later init call invokes
\* add: it finds the section in the manifest and reads the local config
\* next, also when the call that added failed afterwards.
C2_NoSecondAdd ==
    added \in {"ok", "failed"} =>
        /\ pc # "i_add"
        /\ ~Invoked(CmdAdd)
        /\ Len(trace) >= 2 => trace[2] = CmdReadConfig

C2_Witness ==
    /\ added = "failed"
    /\ op = "init"
    /\ Len(trace) >= 2
    /\ trace[2] = CmdReadConfig

\* C3: status on a path that is no directory returns Stale and invokes no
\* external step.
C3_StaleWithoutSteps ==
    (op = "status" /\ pc # "idle" /\ pre.fs.path # "dir") =>
        /\ pc = "done"
        /\ result = "Stale"
        /\ fault = "none"
        /\ trace = <<>>
        /\ repo = pre.repo

C3_Witness ==
    /\ op = "status"
    /\ pc = "done"
    /\ pre.fs.path = "file"
    /\ result = "Stale"

\* C4: status on a directory, when its three steps succeed, has fetched
\* origin and then read HEAD and @{u}, and returns Fresh exactly when the
\* two identifiers read are the same, else Stale.
C4_FreshIffEqual ==
    (op = "status" /\ pc = "done" /\ pre.fs.path = "dir" /\ fault = "none") =>
        /\ trace = <<CmdStatusFetch, CmdRevLocal, CmdRevRemote>>
        /\ local = repo.head
        /\ result \in Verdicts
        /\ result = "Fresh" <=> local = UpstreamRev(repo)

C4_Witness ==
    /\ op = "status"
    /\ pc = "done"
    /\ pre.fs.path = "dir"
    /\ result = "Stale"
    /\ local # UpstreamRev(repo)
    /\ ~quiet

\* C5: an init with a commit that returns Ok has invoked, last, one
\* checkout of that commit in the submodule's directory under the parent's
\* root, which then has that commit checked out; an init without a commit
\* invokes no checkout.
C5_PinCheckedOut ==
    /\ (op = "init" /\ pc = "done" /\ result = "Ok" /\ pin # None) =>
          /\ trace[Len(trace)] = CmdCheckout
          /\ checkout =
                <<[cwd |-> IF sub.path[1] = "/" THEN sub.path ELSE Root \o sub.path,
                   rev |-> pin[1]]>>
          /\ wtree[checkout[1].cwd] = pin[1]
    /\ (op = "init" /\ pin = None) =>
          /\ checkout = <<>>
          /\ ~Invoked(CmdCheckout)

C5_Witness ==
    /\ op = "init"
    /\ pc = "done"
    /\ result = "Ok"
    /\ pin # None
    /\ sub.path = <<"s">>
    /\ trace = <<CmdReadModules, CmdReadConfig, CmdCheckout>>
    /\ wtree[Root \o <<"s">>] = pin[1]
    /\ pre.wtree[Root \o <<"s">>] # pin[1]

\* C6: with no explicit name and none derivable from the remote, init
\* returns NameMissing and has taken no external step: no read of manifest
\* or config, no add, update or checkout.
C6_NameMissingFirst ==
    (op = "init" /\ pc # "idle" /\ sub.name = None /\ Captures(sub.remote) = None) =>
        /\ pc = "done"
        /\ result = "NameMissing"
        /\ fault = "name"
        /\ trace = <<>>
        /\ checkout = <<>>
        /\ <<modules, config, wtree>> = <<pre.modules, pre.config, pre.wtree>>

C6_Witness ==
    /\ op = "init"
    /\ pc = "done"
    /\ sub.name = None
    /\ sub.remote = <<"h", "/", "f", "/", "b">>
    /\ result = "NameMissing"

C8_FetchResetClean ==
    (op = "update" /\ pc # "idle" /\ pre.fs.path = "dir") =>
        /\ IsPrefix(trace, <<CmdUpdateFetch, CmdReset, CmdClean>>)
        /\ pc = "done" =>
              \/ result = "Ok" /\ fault = "none" /\ Len(trace) = 3
              \/ result = "FetchFailed" /\ fault = "fetch" /\ Len(trace) = 1
              \/ result = "ResetFailed" /\ fault = "reset" /\ Len(trace) = 2
              \/ result = "CleanFailed" /\ fault = "clean" /\ Len(trace) = 3
        /\ (Len(trace) >= 2 /\ quiet) => repo.origin = Fetched(pre.repo, remote).origin
        /\ Len(trace) = 3 =>
              /\ repo.head = repo.origin["master"]
              /\ repo.tree = repo.head
              /\ ~repo.dirty

C8_Witness ==
    /\ op = "update"
    /\ pc = "done"
    /\ result = "CleanFailed"
    /\ pre.repo.dirty
    /\ pre.repo.head # repo.head
    /\ repo.origin # pre.repo.origin
    /\ "junk" \in repo.untracked

\* C9: update on a path that is no directory creates the parent directory
\* only when it is missing and invokes the clone after that; when the
\* creation fails it returns ParentDirCreationFailed and invokes no clone;
\* when the clone fails it returns CloneFailed and the parent stays.
C9_ParentThenClone ==
    (op = "update" /\ pc # "idle" /\ pre.fs.path # "dir") =>
        LET steps == IF pre.fs.parent = "dir" THEN <<CmdClone>> ELSE <<CmdMkdir, CmdClone>>
        IN /\ IsPrefix(trace, steps)
           /\ pc = "u_clone" => fs.parent = "dir"
           /\ fault = "mkdir" =>
                 /\ result = "ParentDirCreationFailed"
                 /\ trace = <<CmdMkdir>>
                 /\ fs = pre.fs
           /\ fault = "clone" =>
                 /\ result = "CloneFailed"
                 /\ trace = steps
                 /\ fs = [pre.fs EXCEPT !.parent = "dir"]
           /\ (pc = "done" /\ fault = "none") =>
                 /\ result = "Ok"
                 /\ trace = steps
                 /\ fs = [parent |-> "dir", path |-> "dir"]

C9_Witness ==
    /\ op = "update"
    /\ pc = "done"
    /\ pre.fs.parent = "absent"
    /\ fs.parent = "dir"
    /\ result = "CloneFailed"

\* C10: the error a call returns names the stage that failed: each kind
\* belongs to one stage.
StageOfKind(kind) ==
    CASE kind = "FetchFailed" -> "fetch"
      [] kind = "RevParseLocalFailed" -> "local-rev"
      [] kind = "RevParseRemoteFailed" -> "upstream-rev"
      [] kind = "ParentDirCreationFailed" -> "mkdir"
      [] kind = "CloneFailed" -> "clone"
      [] kind = "ResetFailed" -> "reset"
      [] kind = "CleanFailed" -> "clean"
      [] kind = "NameMissing" -> "name"
      [] kind = "IndexCheckFailed" -> "manifest-query"
      [] kind = "InitCheckFailed" -> "config-query"
      [] kind = "PathInvalidUtf8" -> "path-encoding"
      [] kind = "AddFailed" -> "add"
      [] kind = "InitFailed" -> "recursive-init"
      [] kind = "CheckoutFailed" -> "checkout"
      [] OTHER -> "none"

C10_KindNamesStage ==
    /\ fault # "none" =>
          /\ pc \in {"done", "idle"}
          /\ result \in RepoErrors \cup SubErrors
    /\ pc = "done" => StageOfKind(result) = fault

C10_Witness ==
    /\ pc = "done"
    /\ fault = "upstream-rev"
    /\ result = "RevParseRemoteFailed"
    /\ injected

NoRepeat(s) == \A i, j \in 1 .. Len(s) : s[i] = s[j] => i = j

\* The step each stage of a call invokes; the stages "name" and
\* "path-encoding" invoke none.
StepOfStage(o, stage) ==
    CASE stage = "fetch" -> IF o = "status" THEN CmdStatusFetch ELSE CmdUpdateFetch
      [] stage = "local-rev" -> CmdRevLocal
      [] stage = "upstream-rev" -> CmdRevRemote
      [] stage = "mkdir" -> CmdMkdir
      [] stage = "clone" -> CmdClone
      [] stage = "reset" -> CmdReset
      [] stage = "clean" -> CmdClean
      [] stage = "manifest-query" -> CmdReadModules
      [] stage = "config-query" -> CmdReadConfig
      [] stage = "add" -> CmdAdd
      [] stage = "recursive-init" -> CmdSubUpdate
      [] stage = "checkout" -> CmdCheckout
      [] OTHER -> "none"

\* The step sequences of a call that ran to its end.
FullSequences(o) ==
    CASE o = "status" -> {<<>>, <<CmdStatusFetch, CmdRevLocal, CmdRevRemote>>}
      [] o = "update" ->
            {<<CmdClone>>, <<CmdMkdir, CmdClone>>, <<CmdUpdateFetch, CmdReset, CmdClean>>}
      [] o = "init" ->
            LET front == {<<CmdReadModules, CmdAdd, CmdSubUpdate>>,
                          <<CmdReadModules, CmdReadConfig>>,
                          <<CmdReadModules, CmdReadConfig, CmdSubUpdate>>}
            IN front \cup {s \o <<CmdCheckout>> : s \in front}
      [] OTHER -> {<<>>}

\* C11: in a call of status, update or init no step is invoked twice; a
\* failed step is the last one the call invokes and the call returns that
\* step's error at once; a call returns success only after a full sequence
\* of steps with no failure.  A failed add is followed by neither update
\* nor checkout, a failed update by no checkout, a failed fetch by no
\* revision read.
C11_FirstFailureEnds ==
    /\ NoRepeat(trace)
    /\ fault # "none" =>
          /\ pc = "done"
          /\ result \in RepoErrors \cup SubErrors
          /\ StepOfStage(op, fault) # "none" => trace[Len(trace)] = StepOfStage(op, fault)
    /\ (pc = "done" /\ result \notin RepoErrors \cup SubErrors) =>
          /\ fault = "none"
          /\ result \in {"Ok", "Fresh", "Stale"}
          /\ trace \in FullSequences(op)
    /\ fault = "add" => ~Invoked(CmdSubUpdate) /\ ~Invoked(CmdCheckout)
    /\ fault = "recursive-init" => ~Invoked(CmdCheckout)
    /\ (op = "status" /\ fault = "fetch") => ~Invoked(CmdRevLocal) /\ ~Invoked(CmdRevRemote)

C11_Witness ==
    /\ op = "init"
    /\ pc = "done"
    /\ pin # None
    /\ fault = "recursive-init"
    /\ result = "InitFailed"
    /\ trace = <<CmdReadModules, CmdAdd, CmdSubUpdate>>

\* C12: an init call leaves every other submodule of the parent as it
\* was: the other submodule's section in the local config and the revision
\* in its working tree are the same during and after the call as before it.
C12_OthersUntouched ==
    (op = "init" /\ pc # "idle") =>
        /\ HasSection(config, OtherName) = HasSection(pre.config, OtherName)
        /\ wtree[OtherDir] = pre.wtree[OtherDir]

\* C13: status changes neither whether the local copy exists, nor the
\* revision checked out, nor the working tree's content (tracked files,
\* local changes, untracked entries), whatever it returns; of the two
\* operations only update changes them.
C13_StatusKeepsState ==
    /\ (op = "status" /\ pc # "idle") =>
          /\ fs = pre.fs
          /\ repo.head = pre.repo.head
          /\ repo.tree = pre.repo.tree
          /\ repo.dirty = pre.repo.dirty
          /\ repo.untracked = pre.repo.untracked
          /\ repo.upstream = pre.repo.upstream
    /\ (/\ pc # "idle"
        /\ <<fs, repo.head, repo.tree, repo.dirty, repo.untracked>>
              # <<pre.fs, pre.repo.head, pre.repo.tree, pre.repo.dirty, pre.repo.untracked>>)
       => op = "update"

C13_Witness ==
    /\ op = "status"
    /\ pc = "done"
    /\ result = "Stale"
    /\ trace = <<CmdStatusFetch, CmdRevLocal, CmdRevRemote>>
    /\ repo.origin # pre.repo.origin
    /\ repo.dirty
    /\ repo.untracked # {}

Times(cmd) == Cardinality({i \in 1 .. Len(trace) : trace[i] = cmd})

\* C14: an init call after an init call with the same commit that
\* returned Ok invokes neither add nor update, only the two queries and,
\* with a commit, the checkout, and returns Ok unless the environment makes
\* a step fail; an init call that finds the submodule registered and not
\* initialized invokes no add, and invokes update once when both queries
\* succeed.
C14_InitRepeatable ==
    /\ (op = "init" /\ pc # "idle" /\ follows) =>
          /\ ~Invoked(CmdAdd)
          /\ ~Invoked(CmdSubUpdate)
          /\ pc \notin {"i_add", "i_update"}
          /\ IsPrefix(trace, <<CmdReadModules, CmdReadConfig, CmdCheckout>>)
          /\ (pc = "done" /\ ~injected) =>
                /\ result = "Ok"
                /\ Times(CmdCheckout) = IF pin # None THEN 1 ELSE 0
    /\ (/\ op = "init"
        /\ pc # "idle"
        /\ Name(sub) # None
        /\ HasSection(pre.modules, Name(sub)[1])
        /\ ~HasSection(pre.config, Name(sub)[1])) =>
          /\ ~Invoked(CmdAdd)
          /\ pc # "i_add"
          /\ Times(CmdSubUpdate) <= 1
          /\ (pc = "done" /\ fault \notin {"manifest-query", "config-query"}) =>
                Times(CmdSubUpdate) = 1

C14_Witness ==
    /\ op = "init"
    /\ pc = "done"
    /\ follows
    /\ added = "ok"
    /\ pin # None
    /\ result = "Ok"
    /\ trace = <<CmdReadModules, CmdReadConfig, CmdCheckout>>

\* The remote ends in a word segment followed by .git, and that segment.
EndsInWordDotGit(s) ==
    /\ Len(s) >= 5
    /\ SubSeq(s, Len(s) - 3, Len(s)) = <<".", "g", "i", "t">>
    /\ IsWord(s[Len(s) - 4])

RECURSIVE WordRunStart(_, _)
WordRunStart(s, i) ==
    IF i > 1 /\ IsWord(s[i - 1]) THEN WordRunStart(s, i - 1) ELSE i

FinalSegment(s) == SubSeq(s, WordRunStart(s, Len(s) - 4), Len(s) - 4)

\* C15: in an init call an explicit name is the name used; without one
\* the name is the remote's last word segment before a trailing .git, and
\* a remote that does not end in a word segment followed by .git gives no
\* name, so that the call returns NameMissing.
C15_NameFromRemote ==
    (op = "init" /\ pc # "idle") =>
        /\ sub.name # None => Name(sub) = sub.name
        /\ (sub.name = None /\ EndsInWordDotGit(sub.remote)) =>
              Name(sub) = Some(FinalSegment(sub.remote))
        /\ (sub.name = None /\ ~EndsInWordDotGit(sub.remote)) =>
              /\ Name(sub) = None
              /\ pc = "done"
              /\ result = "NameMissing"

PeerInvoked(cmd) == \E i \in 1 .. Len(peer.trace) : peer.trace[i] = cmd

\* C16: two update calls on one path are not kept apart.  When both have
\* found the path absent, neither waits for the other nor returns without
\* its clone: each goes on to create the parent when it found it missing
\* and to invoke clone, and returns only Ok or the error of its mkdir or
\* of its clone.
C16_NoMutualExclusion ==
    (/\ op = "update"
     /\ pc # "idle"
     /\ peer.pc # "idle"
     /\ pre.fs.path = "absent"
     /\ peer.saw = "absent") =>
        /\ pc \in {"u_mkdir", "u_clone"} \/ Invoked(CmdMkdir) \/ Invoked(CmdClone)
        /\ peer.pc \in {"u_mkdir", "u_clone"} \/ PeerInvoked(CmdMkdir) \/ PeerInvoked(CmdClone)
        /\ pc = "done" =>
              \/ Invoked(CmdClone) /\ result \in {"Ok", "CloneFailed"}
              \/ ~Invoked(CmdClone) /\ result = "ParentDirCreationFailed"
        /\ peer.pc = "done" =>
              \/ PeerInvoked(CmdClone) /\ peer.result \in {"Ok", "CloneFailed"}
              \/ ~PeerInvoked(CmdClone) /\ peer.result = "ParentDirCreationFailed"

C16_Witness ==
    /\ op = "update"
    /\ pc = "done"
    /\ peer.pc = "done"
    /\ pre.fs.path = "absent"
    /\ peer.saw = "absent"
    /\ Invoked(CmdClone)
    /\ PeerInvoked(CmdClone)
    /\ {result, peer.result} = {"Ok", "CloneFailed"}

\* C17: init invokes update in two cases and no other: the manifest had no
\* section for the name and add succeeded, or the manifest had it and the
\* local config, read without error, had none.  In the first case the
\* local config is not read and update is invoked also when the config has
\* the section already; when the manifest has the section add is not
\* invoked.
C17_UpdateExactlyWhen ==
    (op = "init" /\ pc # "idle" /\ fault # "name") =>
        LET name == Name(sub)[1]
            inManifest == HasSection(pre.modules, name)
            inConfig == HasSection(pre.config, name)
            addDone == Invoked(CmdAdd) /\ fault # "add"
            configRead == Invoked(CmdReadConfig) /\ fault # "config-query"
            caseA == ~inManifest /\ addDone
            caseB == inManifest /\ ~inConfig /\ configRead
        IN /\ Invoked(CmdSubUpdate) => caseA \/ caseB
           /\ (caseA \/ caseB) => pc = "i_update" \/ Invoked(CmdSubUpdate)
           /\ (inManifest /\ inConfig) => pc # "i_update"
           /\ ~inManifest => ~Invoked(CmdReadConfig) /\ pc # "i_config"
           /\ inManifest => ~Invoked(CmdAdd) /\ pc # "i_add"

C17_Witness ==
    /\ op = "init"
    /\ pc = "done"
    /\ result = "Ok"
    /\ ~HasSection(pre.modules, Name(sub)[1])
    /\ HasSection(pre.config, Name(sub)[1])
    /\ trace = <<CmdReadModules, CmdAdd, CmdSubUpdate>>

\* C18: a manifest that is missing or has no section for the name is no
\* error: init takes the submodule as unregistered and goes on to add (the
\* path permitting); IndexCheckFailed is returned only when the read of
\* the manifest failed, and then the read is the call's only step.  In
\* the same way a config that is missing or has no section means not
\* initialized, update follows, and InitCheckFailed is returned only when
\* the read of the config failed, with no update or checkout after it.
C18_AbsentIsNotFailed ==
    (op = "init" /\ pc # "idle" /\ fault # "name") =>
        LET name == Name(sub)[1]
            inManifest == pre.modules.exists /\ Contains(pre.modules.text, GitSection(name))
            inConfig == pre.config.exists /\ Contains(pre.config.text, GitSection(name))
        IN /\ (~inManifest /\ Invoked(CmdReadModules) /\ fault # "manifest-query") =>
                 IF ToStr(sub.path) = None
                   THEN result = "PathInvalidUtf8"
                   ELSE pc = "i_add" \/ Invoked(CmdAdd)
           /\ result = "IndexCheckFailed" <=> fault = "manifest-query"
           /\ fault = "manifest-query" =>
                 /\ injected
                 /\ pc = "done"
                 /\ trace = <<CmdReadModules>>
                 /\ <<modules, config, wtree>> = <<pre.modules, pre.config, pre.wtree>>
           /\ (inManifest /\ ~inConfig /\ Invoked(CmdReadConfig) /\ fault # "config-query") =>
                 pc = "i_update" \/ Invoked(CmdSubUpdate)
           /\ result = "InitCheckFailed" <=> fault = "config-query"
           /\ fault = "config-query" =>
                 /\ injected
                 /\ pc = "done"
                 /\ trace = <<CmdReadModules, CmdReadConfig>>
                 /\ <<modules, config, wtree>> = <<pre.modules, pre.config, pre.wtree>>

C18_Witness ==
    /\ op = "init"
    /\ pc = "done"
    /\ ~pre.modules.exists
    /\ ~pre.config.exists
    /\ Invoked(CmdAdd)
    /\ result = "Ok"
    /\ modules.exists

\* C19: when the manifest has no section for the name and the path is no
\* UTF-8, init returns PathInvalidUtf8 with the manifest read as its only
\* step: no add, update or checkout, nothing changed.  When the manifest
\* has the section init never returns PathInvalidUtf8, whatever the path.
C19_PathCheckedWhenUnregistered ==
    (op = "init" /\ pc # "idle" /\ fault # "name") =>
        LET name == Name(sub)[1]
            inManifest == pre.modules.exists /\ Contains(pre.modules.text, GitSection(name))
            badPath == \E i \in 1 .. Len(sub.path) : sub.path[i] = BadByte
        IN /\ (~inManifest /\ badPath) =>
                 /\ pc \in {"i_index", "done"}
                 /\ trace \in {<<>>, <<CmdReadModules>>}
                 /\ checkout = <<>>
                 /\ <<modules, config, wtree>> = <<pre.modules, pre.config, pre.wtree>>
                 /\ (pc = "done" /\ fault # "manifest-query") =>
                       /\ result = "PathInvalidUtf8"
                       /\ fault = "path-encoding"
                       /\ trace = <<CmdReadModules>>
           /\ inManifest => result # "PathInvalidUtf8" /\ fault # "path-encoding"
           /\ result = "PathInvalidUtf8" => ~inManifest /\ badPath

C19_Witness ==
    /\ op = "init"
    /\ pc = "done"
    /\ result = "PathInvalidUtf8"
    /\ sub.path = <<BadByte>>
    /\ pre.modules.exists
    /\ trace = <<CmdReadModules>>

\* C20: a status call right after an update call that returned Ok, with
\* no push to the remote and no local change since that update began and
\* no step failed by the environment, returns Fresh, on whichever branch
\* the checkout tracks.
C20_FreshAfterUpdate ==
    (op = "status" /\ pc = "done" /\ follows /\ quiet /\ ~injected /\ repo.upstream # "none") =>
        result = "Fresh"

====
